---- MODULE Spec2Model ----
(***************************************************************************)
(* A model of three parts of UFL:                                          *)
(*   - the Index identity counter            (src/ufl/indexing.py)         *)
(*   - the expression type registry ufl_type (src/ufl/core/ufl_type.py)    *)
(*   - the form preprocessing pipeline       (src/ufl/algorithms/          *)
(*                                            compute_form_data.py)        *)
(* Python's None is the empty set and a present value x is {x}, so that    *)
(* values of different types never meet in one comparison.                 *)
(***************************************************************************)
EXTENDS Integers, Sequences, FiniteSets, TLC

None == {}
Some(x) == {x}
\* The value carried by a non-None option.
The(o) == CHOOSE x \in o : TRUE
\* Python truthiness of an optional boolean: None and False are falsy.
Truthy(o) == o = Some(TRUE)

VARIABLES
  \* ---- src/ufl/indexing.py
  Index_globalcount,     \* Index._globalcount
  indices,               \* every Index object created so far, in creation order
  mi_args,               \* the arguments of MultiIndex(indices, rank)
  mi_pc,                 \* "new", "built", "extracted" or "raised"
  multi_index,           \* the MultiIndex: its _indices, or the error raised
  extracted,             \* what extract_indices(multi_index._indices) gave
  \* ---- src/ufl/core/ufl_type.py (state held by Expr)
  all_classes,           \* Expr._ufl_all_classes_, one record per class
  all_handler_names,     \* Expr._ufl_all_handler_names_ (a set)
  num_typecodes,         \* Expr._ufl_num_typecodes_
  obj_init_counts,       \* Expr._ufl_obj_init_counts_
  obj_del_counts,        \* Expr._ufl_obj_del_counts_
  language_operators,    \* keys of Expr._ufl_language_operators_
  expr_thunks,           \* operator symbols set on Expr by setattr
  last_call,             \* arguments and outcome of the latest ufl_type(...)(cls)
  \* ---- src/ufl/algorithms/compute_form_data.py
  form,                  \* the argument of compute_form_data
  pc,                    \* the statement compute_form_data is at
  self,                  \* the FormData under construction
  preprocessed_form,     \* the local variable preprocessed_form (a list of integrals)
  outcome                \* "running", "returned", or the check that raised

mivars == <<mi_args, mi_pc, multi_index, extracted>>
idxvars == <<Index_globalcount, indices, mivars>>
regvars == <<all_classes, all_handler_names, num_typecodes, obj_init_counts,
             obj_del_counts, language_operators, expr_thunks, last_call>>
cfdvars == <<form, pc, self, preprocessed_form, outcome>>
vars == <<idxvars, regvars, cfdvars>>

(***************************************************************************)
(* Index                                                                   *)
(***************************************************************************)
MaxIndices == 4
MaxExplicitCount == 3
IndexNames == {None, Some("i")}
ExplicitCounts == (0 - 1)..MaxExplicitCount

\* Index.__init__, count is None: the identity is the counter, which advances.
FreshCount(globalcount) == globalcount

\* Index.__init__, explicit count: the counter moves above a count it has
\* not passed yet.
GlobalcountAfterExplicitBad(count, globalcount) ==
  IF count > globalcount THEN count + 1 ELSE globalcount
GlobalcountAfterExplicit(count, globalcount) ==
  IF count >= globalcount THEN count + 1 ELSE globalcount

IndexFresh(name) ==
  /\ Len(indices) < MaxIndices
  /\ indices' = Append(indices,
        [name |-> name, count |-> FreshCount(Index_globalcount), fresh |-> TRUE])
  /\ Index_globalcount' = Index_globalcount + 1
  /\ UNCHANGED <<mivars, regvars, cfdvars>>

IndexExplicit(name, count) ==
  /\ Len(indices) < MaxIndices
  /\ indices' = Append(indices, [name |-> name, count |-> count, fresh |-> FALSE])
  /\ Index_globalcount' = GlobalcountAfterExplicit(count, Index_globalcount)
  /\ UNCHANGED <<mivars, regvars, cfdvars>>

NextIndex ==
  \/ \E name \in IndexNames : IndexFresh(name)
  \/ \E name \in IndexNames, count \in ExplicitCounts : IndexExplicit(name, count)

(***************************************************************************)
(* Index tuples: as_index, as_index_tuple, MultiIndex, extract_indices     *)
(***************************************************************************)
MaxEntries == 3
MaxRank == 4

\* An entry of an index tuple: an Index object (val: its position in
\* indices, the object's identity, as Index defines no __eq__ nor __hash__),
\* a FixedIndex (val: its _value), the singleton Axis, an int (val), a slice
\* (val 0: start, stop and step are None), Ellipsis, or another object.
Obj(kind, val) == [kind |-> kind, val |-> val]
FixedIndex(value) == Obj("FixedIndex", value)
Axis == Obj("AxisType", 0)

\* as_index(i), lines 75-85: the index object, or None when it raises.
as_index(i) ==
  IF i.kind \in {"Index", "FixedIndex"} THEN Some(i)
  ELSE IF i.kind = "int" THEN Some(FixedIndex(i.val))
  ELSE IF i.kind = "slice" THEN (IF i.val = 0 THEN Some(Axis) ELSE None)
  ELSE None

\* The message as_index(i) raises with, lines 82 and 85.
as_index_error(i) ==
  IF i.kind = "slice" THEN "Partial slices not implemented, only [:]"
  ELSE "Can convert this object to index"

\* [Axis]*n, the empty list when n <= 0.
Repeat(x, n) == [k \in 1..n |-> x]

RECURSIVE IndexTupleLoop(_, _, _)
\* The loop of lines 102-110 from entry j on; acc holds pre, post, found and
\* whether an assertion or as_index has raised.
IndexTupleLoop(items, j, acc) ==
  IF j > Len(items) \/ acc.raised THEN acc
  ELSE LET idx == items[j]
           converted == as_index(idx)
       IN IF acc.found
          THEN IF idx.kind = "Ellipsis"
               THEN IndexTupleLoop(items, j + 1, [acc EXCEPT !.found = TRUE])
               ELSE IF converted = None
                    THEN [acc EXCEPT !.raised = TRUE, !.error = as_index_error(idx)]
                    ELSE IndexTupleLoop(items, j + 1,
                           [acc EXCEPT !.pre = Append(@, The(converted))])
          ELSE IF idx.kind = "Ellipsis"
               THEN [acc EXCEPT !.raised = TRUE, !.error = "Found duplicate ellipsis."]
               ELSE IF converted = None
               THEN [acc EXCEPT !.raised = TRUE, !.error = as_index_error(idx)]
               ELSE IndexTupleLoop(items, j + 1,
                      [acc EXCEPT !.post = Append(@, The(converted))])

\* as_index_tuple(indices, rank), lines 88-114. indices.items is the tuple,
\* or the one object that line 98 wraps into a tuple.
as_index_tuple(inds, rank) ==
  LET acc == IndexTupleLoop(inds.items, 1,
               [pre |-> <<>>, post |-> <<>>, found |-> FALSE, raised |-> FALSE,
                error |-> ""])
  IN IF acc.raised THEN [raised |-> TRUE, error |-> acc.error, _indices |-> <<>>]
     ELSE [raised |-> FALSE, error |-> "",
           _indices |-> acc.pre \o Repeat(Axis, rank - Len(acc.pre) - Len(acc.post))
                          \o acc.post]

\* The orders in which the keys of a dict may come.
Orderings(S) ==
  {s \in [1..Cardinality(S) -> S] : \A x \in S : \E k \in DOMAIN s : s[k] = x}

\* Line 132: all(i <= 2 for i in index_count.values()).
RepetitionsAllowedBad(index_count) ==
  \A i \in DOMAIN index_count : index_count[i] < 2
RepetitionsAllowed(index_count) ==
  \A i \in DOMAIN index_count : index_count[i] <= 2

\* extract_indices(indices), lines 117-143: the results it may give, the
\* free and repeated indices coming in the order of the keys of index_count.
extract_indices(inds) ==
  LET positions == DOMAIN inds
      proper == \A i \in positions : inds[i].kind \in {"Index", "FixedIndex", "AxisType"}
      fixed_positions == {i \in positions : inds[i].kind = "FixedIndex"}
      fixed_indices ==
        [k \in 1..Cardinality(fixed_positions) |->
           LET i == CHOOSE p \in fixed_positions :
                      Cardinality({q \in fixed_positions : q < p}) = k - 1
           IN <<i - 1, inds[i]>>]
      num_unassigned_indices == Cardinality({i \in positions : inds[i] = Axis})
      unique_indices == {inds[i] : i \in {p \in positions : inds[p].kind = "Index"}}
      index_count == [idx \in unique_indices |->
                        Cardinality({i \in positions : inds[i] = idx})]
      free == {idx \in unique_indices : index_count[idx] = 1}
      repeated == {idx \in unique_indices : index_count[idx] = 2}
      failed(msg) == [error |-> msg, fixed_indices |-> <<>>, free_indices |-> <<>>,
                      repeated_indices |-> <<>>, num_unassigned_indices |-> 0]
  IN IF ~proper THEN {failed("Expecting proper UFL objects.")}
     ELSE IF ~RepetitionsAllowed(index_count)
       THEN {failed("Too many index repetitions")}
     ELSE IF Len(fixed_indices) + Cardinality(free) + 2 * Cardinality(repeated)
               + num_unassigned_indices # Len(inds)
       THEN {failed("Logic breach in extract_indices.")}
     ELSE { [error |-> "", fixed_indices |-> fixed_indices, free_indices |-> f,
             repeated_indices |-> r,
             num_unassigned_indices |-> num_unassigned_indices] :
              f \in Orderings(free), r \in Orderings(repeated) }

NoMultiIndex == [raised |-> FALSE, error |-> "", _indices |-> <<>>]
NoExtracted ==
  [error |-> "", fixed_indices |-> <<>>, free_indices |-> <<>>,
   repeated_indices |-> <<>>, num_unassigned_indices |-> 0]

\* MultiIndex.__init__(indices, rank), lines 148-149.
MultiIndexInit ==
  /\ mi_pc = "new"
  /\ multi_index' = as_index_tuple(mi_args.indices, mi_args.rank)
  /\ mi_pc' = IF multi_index'.raised THEN "raised" ELSE "built"
  /\ UNCHANGED <<mi_args, extracted, Index_globalcount, indices, regvars, cfdvars>>

\* extract_indices on the tuple of the MultiIndex.
ExtractIndices ==
  /\ mi_pc = "built"
  /\ \E result \in extract_indices(multi_index._indices) :
       /\ extracted' = result
       /\ mi_pc' = IF result.error = "" THEN "extracted" ELSE "raised"
  /\ UNCHANGED <<mi_args, multi_index, Index_globalcount, indices, regvars, cfdvars>>

NextMultiIndex ==
  \/ MultiIndexInit
  \/ ExtractIndices

\* The Index objects at hand: i = Index(), j = Index(), k = Index("i", 0).
CreatedIndices ==
  <<[name |-> None, count |-> 0, fresh |-> TRUE],
    [name |-> None, count |-> 1, fresh |-> TRUE],
    [name |-> Some("i"), count |-> 0, fresh |-> FALSE]>>

\* What is written between the brackets: the Index objects, FixedIndex(1),
\* Axis, 0, a full and a partial slice, Ellipsis and a string.
UserEntries ==
  {Obj("Index", k) : k \in DOMAIN CreatedIndices}
    \cup {FixedIndex(1), Axis, Obj("int", 0), Obj("slice", 0), Obj("slice", 1),
          Obj("Ellipsis", 0), Obj("str", 0)}

\* A tuple of up to MaxEntries entries, or one entry that is not a tuple.
MultiIndexArgs ==
  { [indices |-> [tuple |-> TRUE, items |-> t], rank |-> rank] :
      t \in UNION {[1..n -> UserEntries] : n \in 0..MaxEntries}, rank \in 0..MaxRank }
  \cup
  { [indices |-> [tuple |-> FALSE, items |-> <<x>>], rank |-> rank] :
      x \in UserEntries, rank \in 0..MaxRank }

NoMultiIndexArgs == [indices |-> [tuple |-> TRUE, items |-> <<>>], rank |-> 0]

(***************************************************************************)
(* Expression type registry                                                *)
(***************************************************************************)
MaxClasses == 2
ClassNames == {"Sum", "FacetNormal"}
\* The root class Expr is class 0; registered classes are 1..Len(all_classes).
ExprId == 0

\* ufl.common.camel2underscore on the class names used here.
camel2underscore(name) ==
  CASE name = "Sum" -> "sum"
    [] name = "FacetNormal" -> "facet_normal"
    [] OTHER -> "expr"

\* Expr itself carries no value for the traits that ufl_type inherits.
ExprAttr(name) == None

OwnAttr(rec, name) ==
  CASE name = "_ufl_is_terminal_" -> rec.is_terminal
    [] name = "_ufl_num_ops_" -> rec.num_ops
    [] name = "_ufl_is_scalar_" -> rec.is_scalar
    [] OTHER -> None

\* Python attribute lookup on a class: its own dict, else its bases'.
RECURSIVE getattr(_, _, _)
getattr(classes, c, name) ==
  IF c = ExprId THEN ExprAttr(name)
  ELSE IF name \in classes[c].own THEN OwnAttr(classes[c], name)
  ELSE getattr(classes, classes[c].parent, name)

\* get_base_attr: first non-None attribute along cls.mro().
RECURSIVE get_base_attr(_, _, _)
get_base_attr(classes, c, name) ==
  LET attr == getattr(classes, c, name)
  IN IF attr # None THEN attr
     ELSE IF c = ExprId THEN None
     ELSE get_base_attr(classes, classes[c].parent, name)

\* Line 96: neither an explicit nor an inherited terminal trait.
TerminalTraitMissingBad(is_terminal, auto_is_terminal) ==
  is_terminal = None /\ auto_is_terminal # None
TerminalTraitMissing(is_terminal, auto_is_terminal) ==
  is_terminal = None /\ auto_is_terminal = None

\* Lines 99-101: the value stored as cls._ufl_is_terminal_ when the trait is
\* not missing. The else branch overwrites the inherited value by the argument.
ResolvedIsTerminal(is_terminal, auto_is_terminal) == is_terminal

\* Lines 105-118: explicit num_ops, else from the traits, else from the bases.
AutoNumOps(num_ops, cls_is_terminal, unop, binop, rbinop, base_num_ops) ==
  LET from_args ==
        IF num_ops # None THEN num_ops
        ELSE IF Truthy(cls_is_terminal) THEN Some(0)
        ELSE IF unop # None THEN Some(1)
        ELSE IF binop # None \/ rbinop # None THEN Some(2)
        ELSE None
  IN IF from_args # None THEN from_args ELSE base_num_ops

\* Lines 58-67: the class has __slots__ (no class here is marked with
\* _ufl_noslots_, so every registered base has __slots__ as well).
SlotsCheckFails(a) == ~a.has_slots

\* Lines 136-139: the four consistency assertions.
AssertionsHoldBad(typecodes, names, classes, inits, dels) ==
  /\ typecodes = Len(classes)
  /\ typecodes = Len(inits)
  /\ typecodes = Len(dels)
AssertionsHold(typecodes, names, classes, inits, dels) ==
  /\ typecodes = Cardinality(names)
  /\ typecodes = Len(classes)
  /\ typecodes = Len(inits)
  /\ typecodes = Len(dels)

\* Line 141: a concrete class without an arity.
NumOpsMissing(is_abstract, cls_num_ops) ==
  ~is_abstract /\ cls_num_ops = None

\* Line 145: a terminal with operands.
TerminalWithOperands(cls_is_terminal, cls_num_ops) ==
  Truthy(cls_is_terminal) /\ cls_num_ops # Some(0)

\* The class object as the class statement leaves it, with lines 45-89 applied.
NewClass(a, typecode) ==
  [name |-> a.name, parent |-> a.parent,
   is_abstract |-> a.is_abstract, is_shaping |-> a.is_shaping,
   handler_name |-> camel2underscore(a.name), typecode |-> typecode,
   own |-> {}, is_terminal |-> None, num_ops |-> None, is_scalar |-> None,
   completed |-> FALSE]

\* _ufl_type_decorator_(cls): the state it leaves and how it ends.
\* Each raise keeps the assignments made before it.
TypeDecoratorOutcome(a) ==
  LET id == Len(all_classes) + 1
      \* lines 74-90
      classes1 == Append(all_classes, NewClass(a, num_typecodes))
      names1 == all_handler_names \cup {camel2underscore(a.name)}
      typecodes1 == num_typecodes + 1
      \* lines 93-101
      auto_is_terminal == get_base_attr(classes1, id, "_ufl_is_terminal_")
      rec2 == [classes1[id] EXCEPT
                 !.is_terminal = ResolvedIsTerminal(a.is_terminal, auto_is_terminal),
                 !.own = @ \cup {"_ufl_is_terminal_"}]
      classes2 == [classes1 EXCEPT ![id] = rec2]
      \* lines 104-120
      auto_num_ops == AutoNumOps(a.num_ops, rec2.is_terminal, a.unop, a.binop,
                                 a.rbinop, get_base_attr(classes2, id, "_ufl_num_ops_"))
      rec3 == [rec2 EXCEPT !.num_ops = auto_num_ops,
                           !.own = @ \cup {"_ufl_num_ops_"}]
      classes3 == [classes2 EXCEPT ![id] = rec3]
      \* lines 123-127
      language3 == IF ~a.is_abstract /\ a.has_function
                   THEN language_operators \cup {rec3.handler_name}
                   ELSE language_operators
      \* lines 130-132
      inits3 == Append(obj_init_counts, 0)
      dels3 == Append(obj_del_counts, 0)
      unchanged == [classes |-> all_classes, names |-> all_handler_names,
                    typecodes |-> num_typecodes, inits |-> obj_init_counts,
                    dels |-> obj_del_counts, language |-> language_operators,
                    cls |-> ExprId, result |-> "TypeError"]
      early == [unchanged EXCEPT !.classes = classes1, !.names = names1,
                                 !.typecodes = typecodes1, !.cls = id]
      late == [early EXCEPT !.classes = classes3, !.inits = inits3,
                            !.dels = dels3, !.language = language3]
  IN IF SlotsCheckFails(a) THEN unchanged
     ELSE IF TerminalTraitMissing(a.is_terminal, auto_is_terminal) THEN early
     ELSE IF ~AssertionsHold(typecodes1, names1, classes3, inits3, dels3)
       THEN [late EXCEPT !.result = "AssertionError"]
     ELSE IF NumOpsMissing(a.is_abstract, rec3.num_ops) THEN late
     ELSE IF TerminalWithOperands(rec3.is_terminal, rec3.num_ops) THEN late
     ELSE [late EXCEPT !.classes = [classes3 EXCEPT ![id].completed = TRUE],
                       !.result = "ok"]

\* uflcore__ufl_type_decorator_(cls), lines 156-224: what it would assign to
\* the class and to Expr. ufl_type never returns nor calls this function.
uflcore__ufl_type_decorator_(classes, thunks, id, a) ==
  LET rec1 == [classes[id] EXCEPT !.is_scalar = Some(a.is_scalar),
                                  !.own = @ \cup {"_ufl_is_scalar_"}
                                            \cup (IF a.is_scalar
                                                  THEN {"ufl_shape", "ufl_free_indices",
                                                        "ufl_index_dimensions"}
                                                  ELSE {})]
      classes1 == [classes EXCEPT ![id] = rec1]
      scalar_base == ~a.is_scalar /\ Truthy(get_base_attr(classes1, id, "_ufl_is_scalar_"))
  IN [classes |-> classes1,
      \* lines 210-221: cls(self), cls(self, other), cls(other, self)
      thunks |-> IF scalar_base THEN thunks
                 ELSE thunks
                        \cup { [symbol |-> s, cls |-> id, operands |-> <<"self">>] :
                                 s \in a.unop }
                        \cup { [symbol |-> s, cls |-> id, operands |-> <<"self", "other">>] :
                                 s \in a.binop }
                        \cup { [symbol |-> s, cls |-> id, operands |-> <<"other", "self">>] :
                                 s \in a.rbinop },
      result |-> IF scalar_base THEN "TypeError" ELSE "ok"]

\* ufl_type(...)(cls): line 226 returns _ufl_type_decorator_, so applying the
\* decorator runs lines 42-150 only.
ufl_type(a) ==
  LET out == TypeDecoratorOutcome(a)
  IN /\ a.has_slots => Len(all_classes) < MaxClasses
     /\ all_classes' = out.classes
     /\ all_handler_names' = out.names
     /\ num_typecodes' = out.typecodes
     /\ obj_init_counts' = out.inits
     /\ obj_del_counts' = out.dels
     /\ language_operators' = out.language
     /\ expr_thunks' = expr_thunks
     /\ last_call' = [args |-> a, cls |-> out.cls, result |-> out.result]
     /\ UNCHANGED <<idxvars, cfdvars>>

\* A class statement can derive from Expr or from a class whose decorator
\* returned (a class whose decorator raised is never bound to a name).
Parents == {ExprId} \cup {c \in 1..Len(all_classes) : all_classes[c].completed}

NoBinding == [unop |-> None, binop |-> None, rbinop |-> None]
OpBindings ==
  {NoBinding,
   [unop |-> Some("__neg__"), binop |-> None, rbinop |-> None],
   [unop |-> None, binop |-> Some("__add__"), rbinop |-> None],
   [unop |-> None, binop |-> None, rbinop |-> Some("__radd__")]}

Args(n, p, sl, ab, t, sc, sh, hf, no, op) ==
  [name |-> n, parent |-> p, has_slots |-> sl, is_abstract |-> ab,
   is_terminal |-> t, is_scalar |-> sc, is_shaping |-> sh, num_ops |-> no,
   unop |-> op.unop, binop |-> op.binop, rbinop |-> op.rbinop,
   has_function |-> hf]

\* The decorator calls tried: every combination of name, base, is_abstract,
\* is_terminal and num_ops, with an operator binding or the scalar flag;
\* shaping operators, with and without a _ufl_function_; and classes that
\* lack __slots__.
RegisterArgs ==
  { Args(n, p, TRUE, ab, t, FALSE, FALSE, FALSE, no, op) :
      n \in ClassNames, p \in Parents, ab \in BOOLEAN,
      t \in {None, Some(TRUE), Some(FALSE)},
      no \in {None, Some(0), Some(2)}, op \in OpBindings }
  \cup
  { Args(n, p, TRUE, ab, t, TRUE, FALSE, FALSE, no, NoBinding) :
      n \in ClassNames, p \in Parents, ab \in BOOLEAN,
      t \in {None, Some(TRUE), Some(FALSE)},
      no \in {None, Some(0), Some(2)} }
  \cup
  { Args(n, p, TRUE, ab, Some(FALSE), FALSE, TRUE, hf, Some(2), NoBinding) :
      n \in ClassNames, p \in Parents, ab \in BOOLEAN, hf \in BOOLEAN }
  \cup
  { Args(n, p, FALSE, FALSE, t, FALSE, FALSE, FALSE, None, NoBinding) :
      n \in ClassNames, p \in Parents, t \in {None, Some(TRUE), Some(FALSE)} }

NoArgs ==
  [name |-> "Sum", parent |-> ExprId, has_slots |-> TRUE, is_abstract |-> FALSE,
   is_terminal |-> None, is_scalar |-> FALSE, is_shaping |-> FALSE,
   num_ops |-> None, unop |-> None, binop |-> None, rbinop |-> None,
   has_function |-> FALSE]

NextRegistry == \E a \in RegisterArgs : ufl_type(a)

(***************************************************************************)
(* Form preprocessing: compute_form_data                                   *)
(***************************************************************************)
MaxIntegrals == 2
Coeffs == {"f", "g"}
Domains == {"D1", "D2", "D3"}
IntegralTypes == {"cell", "exterior_facet"}

\* domain.geometric_dimension(): D1 and D2 are distinct meshes of the plane.
geometric_dimension(d) == IF d = "D3" THEN 3 ELSE 2

\* subdomain_id is an integer or the string "otherwise".
Otherwise == [is_str |-> TRUE, id |-> 0]
SubdomainId(n) == [is_str |-> FALSE, id |-> n]

CompleteElement == [family |-> Some("Lagrange"), domain |-> Some("D1"), degree |-> Some(2)]

RECURSIVE SeqMax(_)
\* Python 2 max() of a list whose entries are None or integers: None sorts
\* below every integer.
SeqMax(s) ==
  IF Len(s) = 1 THEN s[1]
  ELSE LET m == SeqMax(SubSeq(s, 1, Len(s) - 1))
           x == s[Len(s)]
       IN IF m = None THEN x
          ELSE IF x = None THEN m
          ELSE IF The(x) > The(m) THEN x ELSE m

RECURSIVE unique_tuple(_)
\* ufl.algorithms.analysis.unique_tuple: first occurrences, in order.
unique_tuple(s) ==
  IF s = <<>> THEN <<>>
  ELSE LET r == unique_tuple(SubSeq(s, 1, Len(s) - 1))
           x == s[Len(s)]
       IN IF \E i \in DOMAIN r : r[i] = x THEN r ELSE Append(r, x)

\* The elements here are not mixed: the sub elements are the elements.
extract_sub_elements(elements) == unique_tuple(elements)

Range(s) == {s[i] : i \in DOMAIN s}

\* The orders Python's sorted(set, key=...) can return: ascending by key,
\* entries with equal keys in the set's iteration order.
SortedByKey(S, key) ==
  { s \in [1..Cardinality(S) -> S] :
      /\ \A i, j \in 1..Cardinality(S) : i < j => s[i] # s[j]
      /\ \A i, j \in 1..Cardinality(S) : i < j => key[s[i]] <= key[s[j]] }

\* form.coefficients(): the coefficients of the form as written, by count
\* (equal counts by name).
FormCoefficients(fm) ==
  LET used == UNION {fm.integrals[i].coeffs : i \in DOMAIN fm.integrals}
      key == [c \in used |-> 2 * fm.count[c] + (IF c = "f" THEN 0 ELSE 1)]
  IN CHOOSE s \in SortedByKey(used, key) : TRUE

\* form.arguments(): the arguments, by number; argument i has element
\* form.arguments[i].
FormArguments(fm) == fm.arguments

\* form.domains(): the domains of the integrals, first occurrences in order.
FormDomains(fm) == unique_tuple([i \in DOMAIN fm.integrals |-> fm.integrals[i].domain])

\* expand_derivatives(form): every integrand keeps the coefficients that
\* survive differentiation.
expand_derivatives(fm) ==
  [i \in DOMAIN fm.integrals |->
     [integral_type |-> fm.integrals[i].integral_type,
      subdomain_id |-> fm.integrals[i].subdomain_id,
      domain |-> fm.integrals[i].domain,
      coeffs |-> fm.integrals[i].expanded_coeffs,
      facet_geometry |-> fm.integrals[i].facet_geometry,
      arity |-> fm.integrals[i].arity]]

\* propagate_restrictions(form): restrictions move to the terminals; the
\* coefficients, classes and arguments of an integrand stay what they are.
propagate_restrictions(itgs) ==
  [i \in DOMAIN itgs |-> itgs[i]]

GroupKey(itg) == <<itg.integral_type, itg.subdomain_id>>

\* build_integral_data(integrals, domains): one IntegralData per
\* (integral_type, subdomain_id), in order of first occurrence.
build_integral_data(itgs, domains) ==
  LET keys == unique_tuple([i \in DOMAIN itgs |-> GroupKey(itgs[i])])
      OfKey(k, itg) == GroupKey(itg) = k
  IN [g \in DOMAIN keys |->
        [integral_type |-> keys[g][1],
         subdomain_id |-> keys[g][2],
         integrals |-> SelectSeq(itgs, LAMBDA itg : OfKey(keys[g], itg)),
         integral_coefficients |-> {},
         enabled_coefficients |-> <<>>]]

RECURSIVE Concat(_)
Concat(ss) == IF ss = <<>> THEN <<>> ELSE ss[1] \o Concat(Tail(ss))

\* reconstruct_form_from_integral_data: the groups' integrals, concatenated.
reconstruct_form_from_integral_data(integral_data) ==
  Concat([g \in DOMAIN integral_data |-> integral_data[g].integrals])

\* extract_coefficients(integrand)
extract_coefficients(itg) == itg.coeffs

\* compute_form_arities(form): the distinct arities of the terms.
compute_form_arities(itgs) == {itgs[i].arity : i \in DOMAIN itgs}

\* _auto_select_degree(elements), lines 51-69.
_auto_select_degreeBad(elements) ==
  LET degrees == IF elements = <<>> THEN <<None>>
                 ELSE [i \in DOMAIN elements |-> elements[i].degree]
      common_degree == SeqMax(degrees)
  IN IF common_degree = None THEN 1 ELSE The(common_degree)
_auto_select_degree(elements) ==
  LET degrees == IF elements = <<>> THEN <<None>>
                 ELSE [i \in DOMAIN elements |-> elements[i].degree]
      common_degree == SeqMax(degrees)
      defaulted == IF common_degree = None THEN 1 ELSE The(common_degree)
  IN IF defaulted > 1 THEN defaulted ELSE 1

\* Lines 75-76: the elements of the arguments, then of the coefficients.
FormElements(fm) ==
  LET cs == FormCoefficients(fm)
  IN extract_sub_elements(FormArguments(fm) \o [i \in DOMAIN cs |-> fm.element[cs[i]]])

\* Lines 88-109: the completed element of one element.
MappedElement(element, domains, common_degree) ==
  LET domain == IF element.domain = None THEN Some(domains[1]) ELSE element.domain
      degree == IF element.degree = None THEN Some(common_degree) ELSE element.degree
  IN [element EXCEPT !.domain = domain, !.degree = degree]

\* Line 92: ufl_assert(len(domains) == 1, ...).
UniqueCommonDomainBad(domains) == Len(domains) >= 1
UniqueCommonDomain(domains) == Len(domains) = 1

\* _compute_element_mapping(form), lines 71-111: the map, or the failed
\* ufl_assert of line 92.
_compute_element_mapping(fm) ==
  LET elements == FormElements(fm)
      common_degree == _auto_select_degree(elements)
      domains == FormDomains(fm)
      ambiguous == \E i \in DOMAIN elements :
                      elements[i].domain = None /\ ~UniqueCommonDomain(domains)
  IN IF ambiguous THEN [ok |-> FALSE, map |-> <<>>]
     ELSE [ok |-> TRUE,
           map |-> [e \in Range(elements) |-> MappedElement(e, domains, common_degree)]]

RECURSIVE UpdateAll(_, _)
\* set.update over a list of sets, in list order.
UpdateAll(acc, sets) ==
  IF sets = <<>> THEN acc ELSE UpdateAll(acc \cup sets[1], Tail(sets))

\* Lines 235-239: integral_coefficients of every group.
WithIntegralCoefficientsBad(integral_data) ==
  [g \in DOMAIN integral_data |->
     [integral_data[g] EXCEPT !.integral_coefficients =
        UpdateAll({}, Tail([k \in DOMAIN integral_data[g].integrals |->
                              extract_coefficients(integral_data[g].integrals[k])]))]]
WithIntegralCoefficients(integral_data) ==
  [g \in DOMAIN integral_data |->
     [integral_data[g] EXCEPT !.integral_coefficients =
        UpdateAll({}, [k \in DOMAIN integral_data[g].integrals |->
                         extract_coefficients(integral_data[g].integrals[k])])]]

\* Lines 243-245: the coefficients used in any group.
ReducedCoefficientsSet(integral_data) ==
  UpdateAll({}, [g \in DOMAIN integral_data |-> integral_data[g].integral_coefficients])

\* Line 246: sorted(reduced_coefficients_set, key=lambda c: c.count()).
SortedReducedCoefficientsBad(reduced_coefficients_set, count) ==
  LET key == [c \in reduced_coefficients_set |-> 0]
  IN SortedByKey(reduced_coefficients_set, key)
SortedReducedCoefficients(reduced_coefficients_set, count) ==
  LET key == [c \in reduced_coefficients_set |-> count[c]]
  IN SortedByKey(reduced_coefficients_set, key)

\* Lines 248-249: 0-based positions in form.coefficients() of the reduced ones.
OriginalCoefficientPositions(coefficients, reduced_coefficients) ==
  LET kept == SelectSeq([i \in DOMAIN coefficients |-> i],
                        LAMBDA i : coefficients[i] \in Range(reduced_coefficients))
  IN [k \in DOMAIN kept |-> kept[k] - 1]

\* Lines 253-254: the mask of one group.
EnabledCoefficientsBad(integral_coefficients, reduced_coefficients) ==
  [k \in DOMAIN reduced_coefficients |->
     reduced_coefficients[k] \in Range(reduced_coefficients)]
EnabledCoefficients(integral_coefficients, reduced_coefficients) ==
  [k \in DOMAIN reduced_coefficients |->
     reduced_coefficients[k] \in integral_coefficients]

\* build_coefficient_replace_map: coefficient k of the reduced list becomes
\* coefficient number k-1 on its completed element.
build_coefficient_replace_map(reduced_coefficients, element_replace_map, fm) ==
  [k \in DOMAIN reduced_coefficients |->
     [original |-> reduced_coefficients[k], count |-> k - 1,
      element |-> element_replace_map[fm.element[reduced_coefficients[k]]]]]

RECURSIVE NumSubDomains(_, _)
\* _compute_num_sub_domains, lines 113-124 (Python 2: max(None, n) is n).
NumSubDomains(acc, integral_data) ==
  IF integral_data = <<>> THEN acc
  ELSE LET it == integral_data[1].integral_type
           si == integral_data[1].subdomain_id
           new == IF si.is_str THEN 0 ELSE si.id + 1
           prev == acc[it]
           next == IF prev = None \/ new > The(prev) THEN Some(new) ELSE prev
       IN NumSubDomains([acc EXCEPT ![it] = next], Tail(integral_data))

_compute_num_sub_domains(integral_data) ==
  NumSubDomains([it \in IntegralTypes |-> None], integral_data)

\* _check_elements, lines 134-139: "" or the first assertion that fails.
_check_elements(unique_elements, unique_sub_elements) ==
  LET es == unique_elements \o unique_sub_elements
      bad == {i \in DOMAIN es : es[i].domain = None \/ es[i].family = None}
      first == CHOOSE i \in bad : \A j \in bad : i <= j
  IN IF bad = {} THEN ""
     ELSE IF es[first].domain = None THEN "undefined_domain"
     ELSE "undefined_family"

\* _check_facet_geometry, lines 141-150: TRUE when no assertion fails.
_check_facet_geometryBad(integral_data) ==
  \A g \in DOMAIN integral_data :
    \A k \in DOMAIN integral_data[g].integrals :
      integral_data[g].integral_type \notin {"exterior_facet", "interior_facet"}
      \/ ~integral_data[g].integrals[k].facet_geometry
_check_facet_geometry(integral_data) ==
  \A g \in DOMAIN integral_data :
    \A k \in DOMAIN integral_data[g].integrals :
      integral_data[g].integral_type \in {"exterior_facet", "interior_facet"}
      \/ ~integral_data[g].integrals[k].facet_geometry

\* _check_form_arity, lines 152-156.
_check_form_arity(itgs) == Cardinality(compute_form_arities(itgs)) = 1

\* FormData(): no attribute is set yet.
EmptyFormData ==
  [original_form |-> None, rank |-> None, geometric_dimension |-> None,
   element_replace_map |-> <<>>, integral_data |-> <<>>,
   reduced_coefficients |-> <<>>, num_coefficients |-> None,
   original_coefficient_positions |-> <<>>, function_replace_map |-> <<>>,
   argument_elements |-> <<>>, coefficient_elements |-> <<>>, elements |-> <<>>,
   unique_elements |-> <<>>, sub_elements |-> <<>>, unique_sub_elements |-> <<>>,
   num_sub_domains |-> <<>>, preprocessed_form |-> None]

Fail(check) ==
  /\ outcome' = check
  /\ pc' = "raised"

\* Line 177: ufl_assert(len(gdims) == 1, ...).
SharedGeometricDimensionBad(gdims) == Cardinality(gdims) >= 1
SharedGeometricDimension(gdims) == Cardinality(gdims) = 1

\* Lines 162-179.
GeometricDimension ==
  /\ pc = "start"
  /\ LET gdims == {geometric_dimension(d) : d \in Range(FormDomains(form))}
         self1 == [self EXCEPT !.original_form = Some(form),
                               !.rank = Some(Len(FormArguments(form)))]
     IN IF SharedGeometricDimension(gdims)
        THEN /\ self' = [self1 EXCEPT !.geometric_dimension = gdims]
             /\ pc' = "element_mapping"
             /\ UNCHANGED outcome
        ELSE /\ self' = self1
             /\ Fail("geometric_dimension")
  /\ UNCHANGED <<form, preprocessed_form, idxvars, regvars>>

\* Line 187.
ElementMapping ==
  /\ pc = "element_mapping"
  /\ LET m == _compute_element_mapping(form)
     IN IF m.ok
        THEN /\ self' = [self EXCEPT !.element_replace_map = m.map]
             /\ pc' = "expand_derivatives"
             /\ UNCHANGED outcome
        ELSE /\ Fail("element_domain")
             /\ UNCHANGED self
  /\ UNCHANGED <<form, preprocessed_form, idxvars, regvars>>

\* Line 194.
DerivativeExpansion ==
  /\ pc = "expand_derivatives"
  /\ preprocessed_form' = expand_derivatives(form)
  /\ pc' = "propagate_restrictions"
  /\ UNCHANGED <<form, self, outcome, idxvars, regvars>>

\* Line 221.
RestrictionPropagation ==
  /\ pc = "propagate_restrictions"
  /\ preprocessed_form' = propagate_restrictions(preprocessed_form)
  /\ pc' = "build_integral_data"
  /\ UNCHANGED <<form, self, outcome, idxvars, regvars>>

\* Lines 227-228.
IntegralGroupingBad ==
  /\ pc = "build_integral_data"
  /\ self' = [self EXCEPT !.integral_data =
                build_integral_data(preprocessed_form, FormDomains(form))]
  /\ pc' = "form_data_elements"
  /\ UNCHANGED <<form, preprocessed_form, outcome, idxvars, regvars>>
IntegralGrouping ==
  /\ pc = "build_integral_data"
  /\ self' = [self EXCEPT !.integral_data =
                build_integral_data(preprocessed_form, FormDomains(form))]
  /\ pc' = "reduce_coefficients"
  /\ UNCHANGED <<form, preprocessed_form, outcome, idxvars, regvars>>

\* Lines 234-261.
CoefficientReduction ==
  /\ pc = "reduce_coefficients"
  /\ LET data1 == WithIntegralCoefficients(self.integral_data)
         reduced_coefficients_set == ReducedCoefficientsSet(data1)
     IN \E reduced \in SortedReducedCoefficients(reduced_coefficients_set, form.count) :
          self' = [self EXCEPT
            !.reduced_coefficients = reduced,
            !.num_coefficients = Some(Len(reduced)),
            !.original_coefficient_positions =
               OriginalCoefficientPositions(FormCoefficients(form), reduced),
            !.integral_data =
               [g \in DOMAIN data1 |->
                  [data1[g] EXCEPT !.enabled_coefficients =
                     EnabledCoefficients(data1[g].integral_coefficients, reduced)]],
            !.function_replace_map =
               build_coefficient_replace_map(reduced, self.element_replace_map, form)]
  /\ pc' = "form_data_elements"
  /\ UNCHANGED <<form, preprocessed_form, outcome, idxvars, regvars>>

\* Lines 264-268.
FormDataElements ==
  /\ pc = "form_data_elements"
  /\ LET argument_elements == FormArguments(form)
         coefficient_elements ==
           [k \in DOMAIN self.function_replace_map |-> self.function_replace_map[k].element]
         elements == argument_elements \o coefficient_elements
         sub_elements == extract_sub_elements(elements)
     IN self' = [self EXCEPT
          !.argument_elements = argument_elements,
          !.coefficient_elements = coefficient_elements,
          !.elements = elements,
          !.unique_elements = unique_tuple(elements),
          !.sub_elements = sub_elements,
          !.unique_sub_elements = unique_tuple(sub_elements),
          !.num_sub_domains = _compute_num_sub_domains(self.integral_data)]
  /\ pc' = "check_elements"
  /\ UNCHANGED <<form, preprocessed_form, outcome, idxvars, regvars>>

\* Line 271.
CheckElements ==
  /\ pc = "check_elements"
  /\ LET failed == _check_elements(self.unique_elements, self.unique_sub_elements)
     IN IF failed = ""
        THEN pc' = "check_facet_geometry" /\ UNCHANGED outcome
        ELSE Fail(failed)
  /\ UNCHANGED <<form, self, preprocessed_form, idxvars, regvars>>

\* Line 272.
CheckFacetGeometry ==
  /\ pc = "check_facet_geometry"
  /\ IF _check_facet_geometry(self.integral_data)
     THEN pc' = "check_form_arity" /\ UNCHANGED outcome
     ELSE Fail("facet_geometry")
  /\ UNCHANGED <<form, self, preprocessed_form, idxvars, regvars>>

\* Lines 275-276.
CheckFormArity ==
  /\ pc = "check_form_arity"
  /\ preprocessed_form' = reconstruct_form_from_integral_data(self.integral_data)
  /\ IF _check_form_arity(preprocessed_form')
     THEN pc' = "assemble" /\ UNCHANGED outcome
     ELSE Fail("form_arity")
  /\ UNCHANGED <<form, self, idxvars, regvars>>

\* Lines 279-281.
Return ==
  /\ pc = "assemble"
  /\ self' = [self EXCEPT !.preprocessed_form = Some(preprocessed_form)]
  /\ outcome' = "returned"
  /\ pc' = "done"
  /\ UNCHANGED <<form, preprocessed_form, idxvars, regvars>>

NextForm ==
  \/ GeometricDimension
  \/ ElementMapping
  \/ DerivativeExpansion
  \/ RestrictionPropagation
  \/ IntegralGrouping
  \/ CoefficientReduction
  \/ FormDataElements
  \/ CheckElements
  \/ CheckFacetGeometry
  \/ CheckFormArity
  \/ Return

\* ---- the forms compute_form_data is run on
SeqsUpTo(S, n) == UNION {[1..k -> S] : k \in 0..n}

Integral(it, si, d, cs, ex, fg, ar) ==
  [integral_type |-> it, subdomain_id |-> si, domain |-> d, coeffs |-> cs,
   expanded_coeffs |-> ex, facet_geometry |-> fg, arity |-> ar]

Counts == { cnt \in [Coeffs -> 0..1] : cnt["f"] = 1 \/ cnt["g"] = 1 }
PlainCounts == [c \in Coeffs |-> IF c = "f" THEN 0 ELSE 1]
CompleteElements == [c \in Coeffs |-> CompleteElement]

\* Forms on one mesh with complete elements: the integrals vary in type,
\* subdomain and coefficients (g may vanish under differentiation), the
\* coefficients in their counts.
GroupingIntegrals ==
  { Integral(it, si, "D1", cs, ex, FALSE, 1) :
      it \in IntegralTypes, si \in {Otherwise, SubdomainId(0)},
      cs \in SUBSET Coeffs, ex \in SUBSET Coeffs }

GroupingForms ==
  { [integrals |-> itgs, count |-> cnt, element |-> CompleteElements,
     arguments |-> <<CompleteElement>>] :
      itgs \in SeqsUpTo({ itg \in GroupingIntegrals :
                            itg.expanded_coeffs \in {itg.coeffs, itg.coeffs \ {"g"}} },
                        MaxIntegrals),
      cnt \in Counts }

\* Forms whose integrals vary in their domain.
DomainIntegrals ==
  { Integral(it, Otherwise, d, {"f"}, {"f"}, FALSE, 1) :
      it \in IntegralTypes, d \in Domains }

DomainForms ==
  { [integrals |-> itgs, count |-> PlainCounts, element |-> CompleteElements,
     arguments |-> <<CompleteElement>>] :
      itgs \in SeqsUpTo(DomainIntegrals, MaxIntegrals) }

\* Forms over plane meshes whose elements vary.
Elements ==
  [family : {None, Some("Lagrange")}, domain : {None, Some("D1")},
   degree : {None, Some(0), Some(3)}]

ElementIntegrals ==
  { Integral("cell", Otherwise, d, cs, cs, FALSE, ar) :
      d \in {"D1", "D2"}, cs \in {{}, Coeffs}, ar \in 0..1 }

\* No argument, or one whose element is complete or lacks domain or degree.
ElementArguments ==
  {<<>>, <<CompleteElement>>, <<[CompleteElement EXCEPT !.domain = None]>>,
   <<[CompleteElement EXCEPT !.degree = None]>>}

ElementForms ==
  UNION {
    { [integrals |-> itgs, count |-> PlainCounts,
       element |-> [c \in Coeffs |-> IF c = "f" THEN ef ELSE eg],
       arguments |-> args] :
        itgs \in SeqsUpTo({itg \in ElementIntegrals : itg.arity = Len(args)},
                          MaxIntegrals) \ {<<>>},
        ef \in Elements,
        eg \in {CompleteElement, [CompleteElement EXCEPT !.degree = None]} } :
    args \in ElementArguments }

\* Forms whose integrands vary in facet geometry and in arity.
CheckIntegrals ==
  { Integral(it, Otherwise, "D1", {"f"}, {"f"}, fg, ar) :
      it \in IntegralTypes, fg \in BOOLEAN, ar \in 0..1 }

CheckForms ==
  { [integrals |-> itgs, count |-> PlainCounts, element |-> CompleteElements,
     arguments |-> IF \E i \in DOMAIN itgs : itgs[i].arity = 1
                   THEN <<CompleteElement>> ELSE <<>>] :
      itgs \in SeqsUpTo(CheckIntegrals, MaxIntegrals) \ {<<>>} }

Forms == GroupingForms \cup DomainForms \cup ElementForms \cup CheckForms

\* Nothing has been created, registered or preprocessed yet: Index._globalcount
\* is 0 (indexing.py line 12) and the registry of Expr is empty.
NoIndexNoClass ==
  /\ Index_globalcount = 0
  /\ indices = <<>>
  /\ mi_args = NoMultiIndexArgs
  /\ mi_pc = "idle"
  /\ multi_index = NoMultiIndex
  /\ extracted = NoExtracted
  /\ all_classes = <<>>
  /\ all_handler_names = {}
  /\ num_typecodes = 0
  /\ obj_init_counts = <<>>
  /\ obj_del_counts = <<>>
  /\ language_operators = {}
  /\ expr_thunks = {}
  /\ last_call = [args |-> NoArgs, cls |-> ExprId, result |-> "none"]

\* No call of compute_form_data is under way.
NoForm ==
  [integrals |-> <<>>, count |-> PlainCounts, element |-> CompleteElements,
   arguments |-> <<>>]

Init ==
  /\ NoIndexNoClass
  /\ form = NoForm
  /\ pc = "idle"
  /\ self = EmptyFormData
  /\ preprocessed_form = <<>>
  /\ outcome = "running"

\* compute_form_data is called on a form.
InitForm ==
  /\ NoIndexNoClass
  /\ form \in Forms
  /\ pc = "start"
  /\ self = EmptyFormData
  /\ preprocessed_form = <<>>
  /\ outcome = "running"

\* MultiIndex(indices, rank) is called on three Index objects created before;
\* no class is registered and no form is being preprocessed.
InitMultiIndex ==
  /\ Index_globalcount = 2
  /\ indices = CreatedIndices
  /\ mi_args \in MultiIndexArgs
  /\ mi_pc = "new"
  /\ multi_index = NoMultiIndex
  /\ extracted = NoExtracted
  /\ all_classes = <<>>
  /\ all_handler_names = {}
  /\ num_typecodes = 0
  /\ obj_init_counts = <<>>
  /\ obj_del_counts = <<>>
  /\ language_operators = {}
  /\ expr_thunks = {}
  /\ last_call = [args |-> NoArgs, cls |-> ExprId, result |-> "none"]
  /\ form = NoForm
  /\ pc = "idle"
  /\ self = EmptyFormData
  /\ preprocessed_form = <<>>
  /\ outcome = "running"

SpecIndex == Init /\ [][NextIndex]_vars
SpecMultiIndex == InitMultiIndex /\ [][NextMultiIndex]_vars
SpecRegistry == Init /\ [][NextRegistry]_vars
SpecForm == InitForm /\ [][NextForm]_vars

(***************************************************************************)
(* Properties                                                              *)
(***************************************************************************)
Completed == {c \in 1..Len(all_classes) : all_classes[c].completed}
Called == last_call.result # "none"

\* C1: the typecodes of the kinds whose registration completed are exactly
\* 0..n-1 in registration order, whatever attempts raised in between.
C1_CompletedTypecodesDense ==
  LET done == SelectSeq(all_classes, LAMBDA rec : rec.completed)
  IN \A k \in DOMAIN done : done[k].typecode = k - 1

\* C2: every kind whose registration succeeded and that is a terminal, by its
\* own trait or by the nearest ancestor that has one, has num_operands 0; and
\* a call with is_terminal true and num_ops > 0 does not succeed.
C2_TerminalHasNoOperands ==
  /\ \A c \in Completed :
       get_base_attr(all_classes, c, "_ufl_is_terminal_") = Some(TRUE)
         => all_classes[c].num_ops = Some(0)
  /\ (Called /\ last_call.args.is_terminal = Some(TRUE)
        /\ last_call.args.num_ops \notin {None, Some(0)})
       => last_call.result # "ok"

\* C3: compute_form_data fails when the geometric dimensions of the form's
\* domains are not exactly one value, and a returned FormData carries that
\* one value.
C3_GeometricDimension ==
  LET gdims == {geometric_dimension(form.integrals[i].domain) : i \in DOMAIN form.integrals}
  IN /\ (pc # "start" /\ Cardinality(gdims) # 1)
           => (pc = "raised" /\ outcome = "geometric_dimension")
     /\ outcome = "returned"
           => (Cardinality(gdims) = 1 /\ self.geometric_dimension = gdims)

C3_Witness ==
  /\ outcome = "geometric_dimension"
  /\ {geometric_dimension(form.integrals[i].domain) : i \in DOMAIN form.integrals} = {2, 3}

\* The coefficients some integrand holds after derivative expansion.
UsedCoefficients == UNION {form.integrals[i].expanded_coeffs : i \in DOMAIN form.integrals}
Reduced == pc \in {"form_data_elements", "check_elements", "check_facet_geometry",
                   "check_form_arity", "assemble", "done"}
                \/ (pc = "raised" /\ outcome \in {"undefined_domain", "undefined_family",
                                                  "facet_geometry", "form_arity"})
DistinctCounts == \A c, d \in Coeffs : c # d => form.count[c] # form.count[d]

\* C4: reduced_coefficients holds exactly the coefficients of the expanded
\* integrands, each once, by ascending count; with distinct counts it is the
\* list fixed by the counts alone, whatever the order of the integrals.
C4_ReducedCoefficients ==
  Reduced =>
    LET r == self.reduced_coefficients
    IN /\ Range(r) = UsedCoefficients
       /\ Len(r) = Cardinality(UsedCoefficients)
       /\ \A i, j \in DOMAIN r : i < j => form.count[r[i]] <= form.count[r[j]]
       /\ DistinctCounts =>
            \A k \in DOMAIN r :
              Cardinality({c \in UsedCoefficients : form.count[c] < form.count[r[k]]}) = k - 1

C4_Witness ==
  /\ outcome = "returned"
  /\ Len(form.integrals) = 2
  /\ form.integrals[1].coeffs = {"f", "g"}
  /\ form.integrals[1].expanded_coeffs = {"f"}
  /\ form.integrals[2].expanded_coeffs = {"g"}
  /\ Len(self.integral_data) = 2
  /\ form.count["f"] > form.count["g"]
  /\ self.reduced_coefficients = <<"g", "f">>

\* The integrals of the form that fall into the group of integral_data[g].
GroupIntegrals(g) ==
  {i \in DOMAIN form.integrals :
     /\ form.integrals[i].integral_type = self.integral_data[g].integral_type
     /\ form.integrals[i].subdomain_id = self.integral_data[g].subdomain_id}

\* C5: in every group enabled_coefficients is as long as the reduced list and
\* entry k tells whether reduced coefficient k is in the group's integrands;
\* every reduced coefficient is enabled in some group.
C5_EnabledCoefficients ==
  Reduced =>
    LET r == self.reduced_coefficients
    IN /\ \A g \in DOMAIN self.integral_data :
            LET enabled == self.integral_data[g].enabled_coefficients
            IN /\ self.num_coefficients = Some(Len(enabled))
               /\ \A k \in DOMAIN enabled :
                    enabled[k] <=> \E i \in GroupIntegrals(g) :
                                      r[k] \in form.integrals[i].expanded_coeffs
       /\ \A k \in DOMAIN r :
            \E g \in DOMAIN self.integral_data :
              self.integral_data[g].enabled_coefficients[k]

C5_Witness ==
  /\ outcome = "returned"
  /\ Len(self.integral_data) = 2
  /\ self.integral_data[1].enabled_coefficients = <<FALSE, TRUE>>
  /\ self.integral_data[2].enabled_coefficients = <<TRUE, FALSE>>

\* One cell integral and one exterior-facet integral on the same coefficient.
CellAndFacetOnOneCoefficient ==
  /\ Len(form.integrals) = 2
  /\ {form.integrals[1].integral_type, form.integrals[2].integral_type}
       = {"cell", "exterior_facet"}
  /\ \E c \in Coeffs : \A i \in 1..2 :
       form.integrals[i].coeffs = {c} /\ form.integrals[i].expanded_coeffs = {c}

\* C6: a form of one cell integral and one exterior-facet integral on the
\* same single coefficient gives two groups, both with enabled_coefficients
\* [True], and num_coefficients 1.
C6_CellAndFacetGroups ==
  (Reduced /\ CellAndFacetOnOneCoefficient) =>
    /\ Len(self.integral_data) = 2
    /\ \A g \in 1..2 : self.integral_data[g].enabled_coefficients = <<TRUE>>
    /\ self.num_coefficients = Some(1)

C6_Witness ==
  /\ outcome = "returned"
  /\ CellAndFacetOnOneCoefficient
  /\ Len(self.integral_data) = 2

C7_Inv ==
  /\ \A k \in DOMAIN indices : indices[k].count < Index_globalcount
  /\ \A k, l \in DOMAIN indices :
       (k < l /\ indices[l].fresh) => indices[l].count # indices[k].count

\* C7: the Index counter never decreases and stays above the identity of
\* every Index created, so a fresh Index differs in identity from every
\* Index created before it, whatever the names.
C7_IndexCounter ==
  /\ []C7_Inv
  /\ [][Index_globalcount' >= Index_globalcount]_vars

C7_Witness ==
  \E k, l \in DOMAIN indices :
    /\ k < l
    /\ ~indices[k].fresh /\ indices[k].count = k - 1
    /\ indices[l].fresh /\ indices[l].name = indices[k].name
    /\ \E m \in DOMAIN indices : m < k /\ indices[m].fresh

\* C8: a kind registered without an explicit is_terminal under an ancestor
\* that defines the trait has, as its own is_terminal, the value of the
\* nearest such ancestor.
C8_InheritedTerminalTrait ==
  (last_call.result = "ok" /\ last_call.args.is_terminal = None)
    => getattr(all_classes, last_call.cls, "_ufl_is_terminal_")
         = get_base_attr(all_classes, last_call.args.parent, "_ufl_is_terminal_")

\* C9: registering a kind with is_terminal unset under no ancestor that
\* defines the terminal trait raises the registration error.
C9_MissingTerminalTraitFails ==
  (Called /\ last_call.args.is_terminal = None
     /\ get_base_attr(all_classes, last_call.args.parent, "_ufl_is_terminal_") = None)
    => last_call.result = "TypeError"

C9_Witness ==
  /\ last_call.result = "TypeError"
  /\ last_call.args.is_terminal = None
  /\ last_call.args.has_slots
  /\ last_call.args.is_abstract
  /\ last_call.args.parent = ExprId
  /\ Len(all_classes) = MaxClasses
  /\ last_call.cls = Len(all_classes)
  /\ all_classes[last_call.cls].own = {}

\* C10: a kind registered with is_scalar true has the is_scalar trait true
\* and its shape, free indices and index dimensions set to the empty value.
C10_ScalarTraits ==
  (last_call.result = "ok" /\ last_call.args.is_scalar) =>
    /\ getattr(all_classes, last_call.cls, "_ufl_is_scalar_") = Some(TRUE)
    /\ {"ufl_shape", "ufl_free_indices", "ufl_index_dimensions"}
         \subseteq all_classes[last_call.cls].own

\* The kinds registered before the kind of the last call whose handler_name
\* is the one derived for it.
SameHandlerName ==
  {d \in 1..Len(all_classes) :
     /\ d # last_call.cls
     /\ all_classes[d].handler_name = camel2underscore(last_call.args.name)}

\* C11: a call with is_scalar false on a subclass of a kind that was
\* registered with is_scalar true does not return: stated for the call that
\* directly follows the successful registration of the scalar parent.
C11_ScalarAncestorFails ==
  [][(/\ last_call.result = "ok"
      /\ last_call.args.is_scalar
      /\ last_call'.args.parent = last_call.cls
      /\ last_call'.args.has_slots
      /\ ~last_call'.args.is_scalar)
       => last_call'.result = "TypeError"]_vars

\* The terminal-ness of the kind of the last call: the explicit is_terminal,
\* else that of the nearest ancestor that has one.
IsTerminalKind ==
  IF last_call.args.is_terminal # None THEN last_call.args.is_terminal
  ELSE get_base_attr(all_classes, last_call.args.parent, "_ufl_is_terminal_")

\* The arity the rule gives the kind of the last call, None when no case
\* applies.
RuleNumOperands ==
  LET a == last_call.args
  IN IF a.num_ops # None THEN a.num_ops
     ELSE IF Truthy(IsTerminalKind) THEN Some(0)
     ELSE IF a.unop # None THEN Some(1)
     ELSE IF a.binop # None \/ a.rbinop # None THEN Some(2)
     ELSE get_base_attr(all_classes, a.parent, "_ufl_num_ops_")

\* C12: a registered kind has as num_operands the first that applies of the
\* explicit num_ops, 0 for a terminal, 1 for a unary binding, 2 for a binary
\* or reflected binding, the nearest ancestor's value; when none applies and
\* the kind is not abstract the registration fails.
C12_ResolvedNumOperands ==
  /\ last_call.result = "ok"
       => all_classes[last_call.cls].num_ops = RuleNumOperands
  /\ (Called /\ RuleNumOperands = None /\ ~last_call.args.is_abstract)
       => last_call.result # "ok"

\* C13: a registration whose derived handler_name is the handler_name of
\* another kind already in the registry fails, and no two kinds whose
\* registration returned share a handler_name.
C13_HandlerNamesDistinct ==
  /\ (Called /\ last_call.args.has_slots /\ SameHandlerName # {})
       => last_call.result # "ok"
  /\ \A c, d \in Completed :
       c # d => all_classes[c].handler_name # all_classes[d].handler_name

C13_Witness ==
  /\ last_call.result = "AssertionError"
  /\ last_call.cls = 2
  /\ all_classes[1].completed
  /\ all_classes[1].handler_name = all_classes[2].handler_name
  /\ num_typecodes = 2
  /\ Cardinality(all_handler_names) = 1
  /\ Len(obj_init_counts) = 2

\* C14: after a kind is registered with a unary, binary or reflected binary
\* operator symbol, Expr carries under that symbol a thunk that constructs
\* the kind from (self), (self, other) or (other, self).
C14_OperatorThunks ==
  last_call.result = "ok" =>
    LET a == last_call.args
        Thunk(s, ops) == [symbol |-> s, cls |-> last_call.cls, operands |-> ops]
    IN /\ \A s \in a.unop : Thunk(s, <<"self">>) \in expr_thunks
       /\ \A s \in a.binop : Thunk(s, <<"self", "other">>) \in expr_thunks
       /\ \A s \in a.rbinop : Thunk(s, <<"other", "self">>) \in expr_thunks

\* C20: after every call of the registration, returned or raised, the
\* typecode counter, the number of classes, the number of handler names and
\* the lengths of the init and del counter lists are pairwise equal.
C20_CountersPairwiseEqual ==
  /\ num_typecodes = Len(all_classes)
  /\ num_typecodes = Cardinality(all_handler_names)
  /\ num_typecodes = Len(obj_init_counts)
  /\ num_typecodes = Len(obj_del_counts)

\* _compute_element_mapping has run on the form.
ElementMappingRan ==
  /\ pc \notin {"idle", "start", "element_mapping"}
  /\ outcome # "geometric_dimension"

MissingDomain ==
  \E i \in DOMAIN FormElements(form) : FormElements(form)[i].domain = None

\* C15: element mapping, as run by compute_form_data, fails with the
\* ambiguous-domain error for every form that has two distinct domains.
C15_TwoDomainsFail ==
  (ElementMappingRan /\ Len(FormDomains(form)) >= 2)
    => (pc = "raised" /\ outcome = "element_domain")

\* C15 as amended: on a form with two distinct domains element mapping
\* fails with the ambiguous-domain error exactly when some element of the
\* form lacks a domain.
C15_TwoDomainsMissingDomainFail ==
  (ElementMappingRan /\ Len(FormDomains(form)) >= 2)
    => ((pc = "raised" /\ outcome = "element_domain") <=> MissingDomain)

C15_Witness ==
  /\ outcome = "element_domain"
  /\ FormDomains(form) = <<"D2", "D1">>
  /\ form.arguments = <<CompleteElement>>
  /\ form.element["f"].domain = None

\* The element map is in self.element_replace_map.
Mapped == ElementMappingRan /\ outcome # "element_domain"

\* The degrees declared by the elements of the form.
DeclaredDegrees ==
  {The(FormElements(form)[i].degree) :
     i \in {j \in DOMAIN FormElements(form) : FormElements(form)[j].degree # None}}

\* max(1, m) for the greatest declared degree m, 1 when none is declared.
FlooredMaxDegree ==
  IF DeclaredDegrees = {} THEN 1
  ELSE LET m == CHOOSE d \in DeclaredDegrees : \A e \in DeclaredDegrees : e <= d
       IN IF m >= 1 THEN m ELSE 1

\* C16: the degree substituted is max(1, m) for the greatest declared
\* degree m, and 1 when no element declares a degree or there is no element;
\* every element without a degree is mapped to an element of that degree.
C16_SubstitutedDegree ==
  Mapped =>
    /\ _auto_select_degree(FormElements(form)) = FlooredMaxDegree
    /\ \A i \in DOMAIN FormElements(form) :
         LET e == FormElements(form)[i]
         IN e.degree = None =>
              self.element_replace_map[e].degree = Some(FlooredMaxDegree)

C16_Witness ==
  /\ Mapped
  /\ DeclaredDegrees = {0}
  /\ form.arguments = <<[CompleteElement EXCEPT !.degree = None]>>
  /\ self.element_replace_map[form.arguments[1]].degree = Some(1)

\* The facet-geometry check has run on the form.
FacetGeometryChecked ==
  \/ pc \in {"check_form_arity", "assemble", "done"}
  \/ (pc = "raised" /\ outcome \in {"facet_geometry", "form_arity"})

\* An integral whose type does not contain "facet" and whose integrand
\* holds a facet-only geometric quantity.
FacetQuantityOutsideFacet ==
  \E i \in DOMAIN form.integrals :
    /\ form.integrals[i].integral_type = "cell"
    /\ form.integrals[i].facet_geometry

\* C17: compute_form_data fails when an integral of a type without "facet"
\* holds a facet-only geometric quantity, and the facet-geometry check fails
\* for no other integral.
C17_FacetGeometry ==
  /\ FacetGeometryChecked => (outcome = "facet_geometry" <=> FacetQuantityOutsideFacet)
  /\ outcome = "returned" => ~FacetQuantityOutsideFacet

C17_Witness ==
  /\ outcome = "facet_geometry"
  /\ Len(form.integrals) = 2
  /\ form.integrals[1].integral_type = "exterior_facet"
  /\ form.integrals[1].facet_geometry
  /\ form.integrals[2].integral_type = "cell"
  /\ form.integrals[2].facet_geometry

\* C18: when MultiIndex(indices, rank) succeeds its tuple has length rank.
C18_LengthIsRank ==
  mi_pc \in {"built", "extracted"} => Len(multi_index._indices) = mi_args.rank

\* How often Index object o occurs in the tuple of the MultiIndex.
Occurrences(o) ==
  Cardinality({i \in DOMAIN multi_index._indices : multi_index._indices[i] = Obj("Index", o)})
IndexObjects == DOMAIN indices
ExtractIndicesRan ==
  mi_pc = "extracted" \/ (mi_pc = "raised" /\ ~multi_index.raised)
NoDuplicates(s) == \A k, l \in DOMAIN s : k # l => s[k] # s[l]

EllipsisPositions ==
  {j \in DOMAIN mi_args.indices.items : mi_args.indices.items[j].kind = "Ellipsis"}

\* The entries at the positions P of the input, converted, in their order.
ConvertedAt(P) ==
  [k \in 1..Cardinality(P) |->
     LET j == CHOOSE p \in P : Cardinality({q \in P : q < p}) = k - 1
     IN The(as_index(mi_args.indices.items[j]))]

\* C21: on a tuple with exactly one Ellipsis and k <= rank other entries
\* (each one an index, an int or a full slice) as_index_tuple gives the
\* converted entries before the ellipsis, rank-k Axis entries and the
\* converted entries after it; 'duplicate ellipsis' is raised only for two
\* or more Ellipsis.
C21_EllipsisExpansion ==
  mi_pc # "new" =>
    LET items == mi_args.indices.items
        others == DOMAIN items \ EllipsisPositions
        k == Cardinality(others)
    IN /\ (/\ Cardinality(EllipsisPositions) = 1
           /\ k <= mi_args.rank
           /\ \A j \in others : as_index(items[j]) # None)
            => LET e == CHOOSE j \in EllipsisPositions : TRUE
               IN /\ ~multi_index.raised
                  /\ multi_index._indices
                       = ConvertedAt({j \in others : j < e})
                           \o [n \in 1..(mi_args.rank - k) |-> Axis]
                           \o ConvertedAt({j \in others : j > e})
       /\ multi_index.error = "Found duplicate ellipsis."
            => Cardinality(EllipsisPositions) >= 2

\* The statements of compute_form_data in the order of the code; "start" is
\* the geometric-dimension check.
StatementOrder ==
  <<"start", "element_mapping", "expand_derivatives", "propagate_restrictions",
    "build_integral_data", "reduce_coefficients", "form_data_elements",
    "check_elements", "check_facet_geometry", "check_form_arity", "assemble", "done">>
Position(p) == CHOOSE k \in DOMAIN StatementOrder : StatementOrder[k] = p

\* The stage of the pipeline a statement belongs to: 1 Element Mapping,
\* 2 Derivative Expansion, 3 Restriction Propagation, 4 Integral Grouping,
\* 5 Coefficient Reduction, 6 Consistency Checks, 7 FormData Assembly.
Stage(p) ==
  CASE p \in {"start", "element_mapping"} -> 1
    [] p = "expand_derivatives" -> 2
    [] p = "propagate_restrictions" -> 3
    [] p = "build_integral_data" -> 4
    [] p = "reduce_coefficients" -> 5
    [] p \in {"form_data_elements", "check_elements", "check_facet_geometry",
              "check_form_arity"} -> 6
    [] OTHER -> 7

\* A stage starts only when the one before it has finished.
StagesInOrder ==
  [][(pc' # pc /\ pc' # "raised")
       => (Stage(pc') = Stage(pc) \/ Stage(pc') = Stage(pc) + 1)]_vars

ReductionCompleted == self.num_coefficients # None

\* The geometric-dimension check has been evaluated.
GeometricDimensionChecked ==
  self.geometric_dimension # None \/ outcome = "geometric_dimension"

\* The element, facet-geometry or arity check has been evaluated.
LaterCheckEvaluated ==
  \/ pc \in {"check_facet_geometry", "check_form_arity", "assemble", "done"}
  \/ outcome \in {"undefined_domain", "undefined_family", "facet_geometry", "form_arity"}

\* C22: the stages run in the order Element Mapping, Derivative Expansion,
\* Restriction Propagation, Integral Grouping, Coefficient Reduction,
\* Consistency Checks, Assembly, and no consistency check (geometric
\* dimension, elements, facet geometry, arity) is evaluated before
\* Coefficient Reduction has completed.
C22_ChecksAfterReduction ==
  /\ StagesInOrder
  /\ []((GeometricDimensionChecked \/ LaterCheckEvaluated) => ReductionCompleted)

\* C22 as amended: the geometric-dimension check is evaluated first, before
\* Element Mapping; then the stages run in the order above, each statement
\* after the one before it, and the element, facet-geometry and arity checks
\* are evaluated only after Coefficient Reduction has completed.
C22_DimensionCheckFirst ==
  /\ StagesInOrder
  /\ [][(pc' # pc /\ pc' # "raised") => Position(pc') = Position(pc) + 1]_vars
  /\ [](pc # "start" => GeometricDimensionChecked)
  /\ [](LaterCheckEvaluated => ReductionCompleted)

C22_Witness ==
  /\ pc = "raised"
  /\ outcome = "geometric_dimension"
  /\ self.original_form = Some(form)
  /\ self.element_replace_map = <<>>
  /\ self.integral_data = <<>>
  /\ ~ReductionCompleted

====
